---- MODULE Spec2Model ----
(***************************************************************************)
(* Campaign delivery pipeline of CampaignAI: send_email_campaign (SMTP,    *)
(* backend/email_sender.py) and send_email_campaign_sendgrid (SendGrid,    *)
(* backend/email_sender_sendgrid.py).  One invocation of a runner is a     *)
(* sequence of steps separated by the calls it makes to the outside world  *)
(* (Groq client, SMTP server, SendGrid API); the outcome of each such call *)
(* is chosen nondeterministically.                                         *)
(***************************************************************************)
EXTENDS Integers, Sequences, FiniteSets, TLC

\* Longest recipient list of a request.
MaxRecipients == 3

(***************************************************************************)
(* Python values                                                           *)
(***************************************************************************)
\* Optional[T]: None is the empty tuple, a value v is the 1-tuple <<v>>.
None == <<>>

Some(v) == <<v>>

\* Truth value of an Optional[str]: None and "" are falsy.
Truthy(o) == o # None /\ o[1] # ""

\* Texts are sequences of characters; str.strip() removes the white space
\* at both ends.
LStrip(s) == IF s # <<>> /\ Head(s) = " " THEN SubSeq(s, 2, Len(s)) ELSE s

RStrip(s) == IF s # <<>> /\ s[Len(s)] = " " THEN SubSeq(s, 1, Len(s) - 1) ELSE s

\* A strip that removes leading white space only.
StripLeadingOnly(s) == LStrip(s)

RECURSIVE Strip(_)
Strip(s) ==
    IF s # <<>> /\ (Head(s) = " " \/ s[Len(s)] = " ")
    THEN Strip(RStrip(LStrip(s)))
    ELSE s

\* round(a / b) with Python's round-half-to-even.
RoundHalfEven(a, b) ==
    LET q == a \div b
        r == a % b
    IN  IF 2 * r < b THEN q
        ELSE IF 2 * r > b THEN q + 1
        ELSE IF q % 2 = 0 THEN q ELSE q + 1

(***************************************************************************)
(* Inputs: requests, environment, outcomes of the external calls           *)
(***************************************************************************)
Runners == {"smtp", "sendgrid"}

RecipientPool ==
    { [name |-> "Ann", email |-> "ann@x.org", personal_description |-> "hiking"],
      [name |-> "Bob", email |-> "bob@x.org", personal_description |-> "chess"] }

RecipientLists == UNION { [1..k -> RecipientPool] : k \in 0..MaxRecipients }

Requests ==
    [ company_name  : {"Acme"},
      recipients    : RecipientLists,
      sender_name   : {None, Some("Team")},
      email_subject : {None, Some("Sale")} ]

\* The environment variables a runner reads; a variable it does not read
\* is left out (None).
Environments(r) ==
    [ SENDER_EMAIL     : {None, Some("from@x.org")},
      SENDER_PASSWORD  : IF r = "smtp" THEN {None, Some(""), Some("pw")} ELSE {None},
      GROQ_API_KEY     : {None, Some("gk")},
      SENDGRID_API_KEY : IF r = "sendgrid" THEN {None, Some("sk")} ELSE {None},
      SENDER_NAME      : {None, Some("EnvTeam")} ]

\* What the generator may return as message.content.
RawTexts == { <<"a">>, <<" ", "b", " ">> }

GenOutcomes ==
    { [kind |-> "raise", text |-> <<>>] } \cup
    { [kind |-> "text", text |-> t] : t \in RawTexts }

\* Status codes the SendGrid client may hand back.
StatusCodes == {202, 204, 500}

SendOutcomes(r) ==
    IF r = "smtp"
    THEN { [kind |-> "ok", code |-> 0], [kind |-> "raise", code |-> 0] }
    ELSE { [kind |-> "raise", code |-> 0] } \cup
         { [kind |-> "status", code |-> c] : c \in StatusCodes }

(***************************************************************************)
(* State                                                                   *)
(***************************************************************************)
VARIABLES
    runner,            \* which of the two functions is running
    request,           \* the EmailCampaignRequest of the invocation
    env,               \* os.environ as read by the invocation
    pc,                \* position in the function
    sender_name,       \* resolved sender display name
    idx,               \* index of the recipient the loop is at
    email_content,     \* Optional: content generated last
    delivery_results,
    successful_sends,
    failed_sends,
    session,           \* the SMTP connection: "closed", "connected", "tls", "ready"
    opens,             \* connections opened by this invocation
    genLog,            \* calls made to the content generator, in order
    sendLog,           \* messages handed to the transport, in order
    report,            \* Optional: the EmailCampaignResponse returned
    error              \* Optional: the exception raised to the caller

vars == << runner, request, env, pc, sender_name, idx, email_content,
           delivery_results, successful_sends, failed_sends, session, opens,
           genLog, sendLog, report, error >>

(***************************************************************************)
(* Pure parts of the runners                                               *)
(***************************************************************************)
\* A credential check that forgets the generator's key.
MissingConfigGroqUnchecked(r, e) ==
    IF r = "smtp"
    THEN IF ~Truthy(e.SENDER_EMAIL) \/ ~Truthy(e.SENDER_PASSWORD)
         THEN Some("Missing SENDER_EMAIL or SENDER_PASSWORD")
         ELSE None
    ELSE IF ~Truthy(e.SENDGRID_API_KEY) THEN Some("Missing SENDGRID_API_KEY")
         ELSE IF ~Truthy(e.SENDER_EMAIL) THEN Some("Missing SENDER_EMAIL")
         ELSE None

\* The first missing credential, as the ValueError text, or None.
MissingConfig(r, e) ==
    IF r = "smtp"
    THEN IF ~Truthy(e.SENDER_EMAIL) \/ ~Truthy(e.SENDER_PASSWORD)
         THEN Some("Missing SENDER_EMAIL or SENDER_PASSWORD")
         ELSE IF ~Truthy(e.GROQ_API_KEY) THEN Some("Missing GROQ_API_KEY")
         ELSE None
    ELSE IF ~Truthy(e.SENDGRID_API_KEY) THEN Some("Missing SENDGRID_API_KEY")
         ELSE IF ~Truthy(e.SENDER_EMAIL) THEN Some("Missing SENDER_EMAIL")
         ELSE IF ~Truthy(e.GROQ_API_KEY) THEN Some("Missing GROQ_API_KEY")
         ELSE None

\* request.sender_name or os.getenv("SENDER_NAME", request.company_name)
ResolveSenderName(req, e) ==
    IF Truthy(req.sender_name) THEN req.sender_name[1]
    ELSE IF e.SENDER_NAME # None THEN e.SENDER_NAME[1]
    ELSE req.company_name

\* A default subject that leaves the company out.
ResolveSubjectWithoutCompany(req) ==
    IF Truthy(req.email_subject) THEN <<req.email_subject[1]>>
    ELSE <<"Special Offer!">>

\* request.email_subject or f"Special Offer from {request.company_name}!"
ResolveSubject(req) ==
    IF Truthy(req.email_subject) THEN <<req.email_subject[1]>>
    ELSE <<"Special Offer from ", req.company_name, "!">>

\* An empty campaign reported as a success.
EmptyReportAsSuccess(req) ==
    [ campaign_summary |->
        [ company_name     |-> req.company_name,
          total_recipients |-> 0,
          successful_sends |-> 0,
          failed_sends     |-> 0,
          success_rate     |-> 0,
          sender_name      |-> IF Truthy(req.sender_name) THEN req.sender_name[1]
                               ELSE req.company_name,
          sender_email     |-> "N/A",
          warning          |-> "No recipients provided" ],
      delivery_results |-> <<>>,
      execution_status |-> "success" ]

\* The report of a campaign without recipients.
EmptyReport(req) ==
    [ campaign_summary |->
        [ company_name     |-> req.company_name,
          total_recipients |-> 0,
          successful_sends |-> 0,
          failed_sends     |-> 0,
          success_rate     |-> 0,
          sender_name      |-> IF Truthy(req.sender_name) THEN req.sender_name[1]
                               ELSE req.company_name,
          sender_email     |-> "N/A",
          warning          |-> "No recipients provided" ],
      delivery_results |-> <<>>,
      execution_status |-> "failed" ]

\* A status that calls any campaign with one delivery a success.
ExecutionStatusAnyDelivery(succ, total) ==
    IF succ > 0 THEN "success" ELSE "failed"

ExecutionStatus(succ, total) ==
    IF succ = total THEN "success"
    ELSE IF succ > 0 THEN "partial_success"
    ELSE "failed"

\* A rate that is cut off after two decimals instead of rounded.
SuccessRateTruncated(succ, total) ==
    IF total # 0 THEN (succ * 10000) \div total ELSE 0

\* round((successful_sends / len(recipients)) * 100, 2), in hundredths of
\* a percent.
SuccessRate(succ, total) ==
    IF total # 0 THEN RoundHalfEven(succ * 10000, total) ELSE 0

BuildReport(req, e, sname, results, succ, fail) ==
    [ campaign_summary |->
        [ company_name     |-> req.company_name,
          total_recipients |-> Len(req.recipients),
          successful_sends |-> succ,
          failed_sends     |-> fail,
          success_rate     |-> SuccessRate(succ, Len(req.recipients)),
          sender_name      |-> sname,
          sender_email     |-> e.SENDER_EMAIL[1] ],
      delivery_results |-> results,
      execution_status |-> ExecutionStatus(succ, Len(req.recipients)) ]

SentResult(rcpt, content) ==
    [ recipient_name  |-> rcpt.name,
      recipient_email |-> rcpt.email,
      status          |-> "sent",
      error_message   |-> None,
      email_content   |-> content ]

\* A failed result that keeps the content generated last.
FailedResultKeepsContent(rcpt, detail) ==
    [ recipient_name  |-> rcpt.name,
      recipient_email |-> rcpt.email,
      status          |-> "failed",
      error_message   |-> Some(detail),
      email_content   |-> email_content ]

FailedResult(rcpt, detail) ==
    [ recipient_name  |-> rcpt.name,
      recipient_email |-> rcpt.email,
      status          |-> "failed",
      error_message   |-> Some(detail),
      email_content   |-> None ]

\* Whether a send with this outcome counts as delivered.
Delivered(r, outcome) ==
    IF r = "smtp" THEN outcome.kind = "ok"
    ELSE outcome.kind = "status" /\ outcome.code \in {200, 201, 202}

\* str(e) of the exception the except clause of the recipient receives
\* when the send did not deliver.
SendErrorText(r, outcome) ==
    IF r = "smtp" THEN <<"Failed to send via SMTP: ", "TransportError">>
    ELSE IF outcome.kind = "status"
         THEN <<"Failed to send via SendGrid: ",
                "SendGrid API returned status ", outcome.code>>
         ELSE <<"Failed to send via SendGrid: ", "TransportError">>

(***************************************************************************)
(* Initial state: no invocation yet.                                       *)
(***************************************************************************)
Init ==
    /\ runner = "smtp"
    /\ request = [ company_name |-> "Acme", recipients |-> <<>>,
                   sender_name |-> None, email_subject |-> None ]
    /\ env = [ SENDER_EMAIL |-> None, SENDER_PASSWORD |-> None,
               GROQ_API_KEY |-> None, SENDGRID_API_KEY |-> None,
               SENDER_NAME |-> None ]
    /\ pc = "idle"
    /\ sender_name = None
    /\ idx = 0
    /\ email_content = None
    /\ delivery_results = <<>>
    /\ successful_sends = 0
    /\ failed_sends = 0
    /\ session = "closed"
    /\ opens = 0
    /\ genLog = <<>>
    /\ sendLog = <<>>
    /\ report = None
    /\ error = None

(***************************************************************************)
(* Steps of an invocation                                                  *)
(***************************************************************************)
Terminated == pc \in {"returned", "raised"}

\* The run ends by raising to the caller.
Raise(type, msg, cause) ==
    /\ pc' = "raised"
    /\ error' = Some([type |-> type, msg |-> msg, cause |-> cause])
    /\ report' = None

\* The run ends by returning the report built from the loop's totals.
Return(results, succ, fail) ==
    /\ pc' = "returned"
    /\ report' = Some(BuildReport(request, env, sender_name[1], results, succ, fail))
    /\ error' = None

\* The caller invokes a runner: the function runs up to its first call to
\* the outside world (empty-list check, credential check).
Invoke(r, req, e) ==
    /\ pc = "idle"
    /\ runner' = r
    /\ request' = req
    /\ env' = e
    /\ UNCHANGED << idx, email_content, delivery_results, successful_sends,
                    failed_sends, session, opens, genLog, sendLog >>
    /\ IF Len(req.recipients) = 0
       THEN /\ pc' = "returned"
            /\ report' = Some(EmptyReport(req))
            /\ error' = None
            /\ sender_name' = None
       ELSE /\ sender_name' = Some(ResolveSenderName(req, e))
            /\ IF MissingConfig(r, e) # None
               THEN Raise("ValueError", MissingConfig(r, e)[1], "config")
               ELSE /\ pc' = "groq_init"
                    /\ UNCHANGED << report, error >>

\* The caller has the report or the exception; the frame of the invocation
\* is gone, the connection (if still open) is not.
Complete ==
    /\ Terminated
    /\ runner' = "smtp"
    /\ request' = [ company_name |-> "Acme", recipients |-> <<>>,
                    sender_name |-> None, email_subject |-> None ]
    /\ env' = [ SENDER_EMAIL |-> None, SENDER_PASSWORD |-> None,
                GROQ_API_KEY |-> None, SENDGRID_API_KEY |-> None,
                SENDER_NAME |-> None ]
    /\ pc' = "idle"
    /\ sender_name' = None
    /\ idx' = 0
    /\ email_content' = None
    /\ delivery_results' = <<>>
    /\ successful_sends' = 0
    /\ failed_sends' = 0
    /\ opens' = 0
    /\ genLog' = <<>>
    /\ sendLog' = <<>>
    /\ report' = None
    /\ error' = None
    /\ UNCHANGED session

\* groq_client = Groq(api_key=groq_api_key)
InitGroq(ok) ==
    /\ pc = "groq_init"
    /\ IF ok
       THEN /\ pc' = IF runner = "smtp" THEN "connect" ELSE "sendgrid_init"
            /\ UNCHANGED << report, error >>
       ELSE Raise("ValueError", "Failed to initialize Groq client", "groq_init")
    /\ UNCHANGED << runner, request, env, sender_name, idx, email_content,
                    delivery_results, successful_sends, failed_sends, session,
                    opens, genLog, sendLog >>

\* sg_client = SendGridAPIClient(sendgrid_api_key); the loop starts.
InitSendGrid(ok) ==
    /\ pc = "sendgrid_init"
    /\ IF ok
       THEN /\ pc' = "generate"
            /\ idx' = 1
            /\ UNCHANGED << report, error >>
       ELSE /\ Raise("ValueError", "Failed to initialize SendGrid client",
                     "sendgrid_init")
            /\ UNCHANGED idx
    /\ UNCHANGED << runner, request, env, sender_name, email_content,
                    delivery_results, successful_sends, failed_sends, session,
                    opens, genLog, sendLog >>

\* smtplib.SMTP("smtp.gmail.com", 587, timeout=30): the constructor connects.
Connect(ok) ==
    /\ pc = "connect"
    /\ IF ok
       THEN /\ pc' = "starttls"
            /\ session' = "connected"
            /\ opens' = opens + 1
            /\ UNCHANGED << report, error >>
       ELSE /\ Raise("Exception", "SMTP connection error", "connect")
            /\ UNCHANGED << session, opens >>
    /\ UNCHANGED << runner, request, env, sender_name, idx, email_content,
                    delivery_results, successful_sends, failed_sends,
                    genLog, sendLog >>

\* server.starttls(); a failure leaves the with block, which closes the
\* connection, and the outer except clause raises.
StartTls(ok) ==
    /\ pc = "starttls"
    /\ IF ok
       THEN /\ pc' = "login"
            /\ session' = "tls"
            /\ UNCHANGED << report, error >>
       ELSE /\ session' = "closed"
            /\ Raise("Exception", "SMTP connection error", "starttls")
    /\ UNCHANGED << runner, request, env, sender_name, idx, email_content,
                    delivery_results, successful_sends, failed_sends, opens,
                    genLog, sendLog >>

\* A login whose failure is swallowed: the loop starts on a session that
\* was never authenticated.
LoginFailureIgnored(ok) ==
    /\ pc = "login"
    /\ pc' = "generate"
    /\ idx' = 1
    /\ session' = IF ok THEN "ready" ELSE session
    /\ UNCHANGED << report, error >>
    /\ UNCHANGED << runner, request, env, sender_name, email_content,
                    delivery_results, successful_sends, failed_sends, opens,
                    genLog, sendLog >>

\* server.login(sender_email, sender_password); the loop starts.  A failure
\* is raised as ValueError out of the with block (which closes the
\* connection) and raised again by the outer except clause.
Login(ok) ==
    /\ pc = "login"
    /\ IF ok
       THEN /\ pc' = "generate"
            /\ idx' = 1
            /\ session' = "ready"
            /\ UNCHANGED << report, error >>
       ELSE /\ session' = "closed"
            /\ Raise("Exception", "SMTP connection error", "login")
            /\ UNCHANGED idx
    /\ UNCHANGED << runner, request, env, sender_name, email_content,
                    delivery_results, successful_sends, failed_sends, opens,
                    genLog, sendLog >>

\* The code after the loop, up to the next external call: the SMTP runner
\* leaves the with block, the SendGrid runner builds and returns the report.
AfterLoop(results, succ, fail) ==
    /\ UNCHANGED idx
    /\ IF runner = "smtp"
       THEN /\ pc' = "release"
            /\ UNCHANGED << report, error >>
       ELSE Return(results, succ, fail)

\* A loop that a failed recipient ends (break instead of continue).
NextRecipientBreakOnFailure(results, succ, fail) ==
    /\ delivery_results' = results
    /\ successful_sends' = succ
    /\ failed_sends' = fail
    /\ IF idx < Len(request.recipients) /\ results[Len(results)].status = "sent"
       THEN /\ idx' = idx + 1
            /\ pc' = "generate"
            /\ UNCHANGED << report, error >>
       ELSE AfterLoop(results, succ, fail)

\* The end of the iteration for recipient idx, with the list and the
\* counters as the iteration leaves them: next recipient, or the code after
\* the loop.
NextRecipient(results, succ, fail) ==
    /\ delivery_results' = results
    /\ successful_sends' = succ
    /\ failed_sends' = fail
    /\ IF idx < Len(request.recipients)
       THEN /\ idx' = idx + 1
            /\ pc' = "generate"
            /\ UNCHANGED << report, error >>
       ELSE AfterLoop(results, succ, fail)

\* A failure branch that forgets to append the result.
OnFailureNotRecorded(rcpt, detail) ==
    NextRecipient(delivery_results, successful_sends, failed_sends + 1)

\* A failure branch that forgets to count the failure.
OnFailureNotCounted(rcpt, detail) ==
    NextRecipient(Append(delivery_results, FailedResult(rcpt, detail)),
                  successful_sends, failed_sends)

\* except Exception as e: of the recipient's try block.
OnFailure(rcpt, detail) ==
    NextRecipient(Append(delivery_results, FailedResult(rcpt, detail)),
                  successful_sends, failed_sends + 1)

\* A success branch that goes on to the next recipient before the result
\* of this one is recorded.
OnSuccessNotRecorded(rcpt) ==
    NextRecipient(delivery_results, successful_sends + 1, failed_sends)

\* Track successful delivery.
OnSuccess(rcpt) ==
    NextRecipient(Append(delivery_results, SentResult(rcpt, email_content)),
                  successful_sends + 1, failed_sends)

\* groq_client.chat.completions.create(...) for recipient idx.
Generate(outcome) ==
    /\ pc = "generate"
    /\ LET rcpt == request.recipients[idx] IN
       /\ genLog' = Append(genLog, [index |-> idx, name |-> rcpt.name,
                                    outcome |-> outcome])
       /\ IF outcome.kind = "text"
          THEN /\ email_content' = Some(Strip(outcome.text))
               /\ pc' = "send"
               /\ UNCHANGED << idx, delivery_results, successful_sends,
                               failed_sends, report, error >>
          ELSE /\ OnFailure(rcpt, <<"Groq API error: ", "ProviderError">>)
               /\ UNCHANGED email_content
    /\ UNCHANGED << runner, request, env, sender_name, session, opens, sendLog >>

\* A send that is tried a second time when the first attempt fails.
SendRetriedOnce(outcome) ==
    /\ pc = "send"
    /\ LET rcpt == request.recipients[idx] IN
       /\ sendLog' = Append(sendLog,
                            [ index     |-> idx,
                              to        |-> rcpt.email,
                              subject   |-> ResolveSubject(request),
                              from_name |-> sender_name[1],
                              from_addr |-> env.SENDER_EMAIL[1],
                              body      |-> email_content[1],
                              outcome   |-> outcome ])
       /\ IF Delivered(runner, outcome)
          THEN OnSuccess(rcpt)
          ELSE IF sendLog = <<>> \/ sendLog[Len(sendLog)].index # idx
               THEN UNCHANGED << pc, idx, delivery_results, successful_sends,
                                 failed_sends, report, error >>
               ELSE OnFailure(rcpt, SendErrorText(runner, outcome))
    /\ UNCHANGED << runner, request, env, sender_name, email_content, session,
                    opens, genLog >>

\* server.send_message(msg) / sg_client.send(message) for recipient idx.
Send(outcome) ==
    /\ pc = "send"
    /\ LET rcpt == request.recipients[idx] IN
       /\ sendLog' = Append(sendLog,
                            [ index     |-> idx,
                              to        |-> rcpt.email,
                              subject   |-> ResolveSubject(request),
                              from_name |-> sender_name[1],
                              from_addr |-> env.SENDER_EMAIL[1],
                              body      |-> email_content[1],
                              outcome   |-> outcome ])
       /\ IF Delivered(runner, outcome)
          THEN OnSuccess(rcpt)
          ELSE OnFailure(rcpt, SendErrorText(runner, outcome))
    /\ UNCHANGED << runner, request, env, sender_name, email_content, session,
                    opens, genLog >>

\* A release that leaves the connection open when QUIT fails.
ReleaseLeaksOnFailure(ok) ==
    /\ pc = "release"
    /\ IF ok
       THEN /\ session' = "closed"
            /\ Return(delivery_results, successful_sends, failed_sends)
       ELSE /\ UNCHANGED session
            /\ Raise("Exception", "SMTP connection error", "quit")
    /\ UNCHANGED << runner, request, env, sender_name, idx, email_content,
                    delivery_results, successful_sends, failed_sends, opens,
                    genLog, sendLog >>

\* Leaving the with block after the loop: SMTP.__exit__ sends QUIT and
\* closes the connection; if QUIT fails the outer except clause raises.
Release(ok) ==
    /\ pc = "release"
    /\ session' = "closed"
    /\ IF ok
       THEN Return(delivery_results, successful_sends, failed_sends)
       ELSE Raise("Exception", "SMTP connection error", "quit")
    /\ UNCHANGED << runner, request, env, sender_name, idx, email_content,
                    delivery_results, successful_sends, failed_sends, opens,
                    genLog, sendLog >>

Next ==
    \/ pc = "idle" /\ \E r \in Runners, req \in Requests : \E e \in Environments(r) :
                         Invoke(r, req, e)
    \/ \E ok \in BOOLEAN : InitGroq(ok)
    \/ \E ok \in BOOLEAN : InitSendGrid(ok)
    \/ \E ok \in BOOLEAN : Connect(ok)
    \/ \E ok \in BOOLEAN : StartTls(ok)
    \/ \E ok \in BOOLEAN : Login(ok)
    \/ \E o \in GenOutcomes : Generate(o)
    \/ \E o \in SendOutcomes(runner) : Send(o)
    \/ \E ok \in BOOLEAN : Release(ok)
    \/ Complete

Spec == Init /\ [][Next]_vars

(***************************************************************************)
(* Properties                                                              *)
(***************************************************************************)
N == Len(request.recipients)

CountStatus(results, st) ==
    Cardinality({ i \in 1..Len(results) : results[i].status = st })

IsPrefix(a, b) == Len(a) <= Len(b) /\ SubSeq(b, 1, Len(a)) = a

\* A credential the running function requires is unset or empty.
CredentialMissing ==
    IF runner = "smtp"
    THEN \E v \in {env.SENDER_EMAIL, env.SENDER_PASSWORD, env.GROQ_API_KEY} :
            v = None \/ v = Some("")
    ELSE \E v \in {env.SENDGRID_API_KEY, env.SENDER_EMAIL, env.GROQ_API_KEY} :
            v = None \/ v = Some("")

\* C1: a run over a non-empty recipient list that returns a report returns
\* exactly one delivery result per recipient, and result i carries the name
\* and the email of recipient i.
C1_OneResultPerRecipient ==
    (pc = "returned" /\ N > 0) =>
        /\ Len(report[1].delivery_results) = N
        /\ \A i \in 1..N :
              /\ report[1].delivery_results[i].recipient_name = request.recipients[i].name
              /\ report[1].delivery_results[i].recipient_email = request.recipients[i].email

\* A report over three recipients, not all the same, with sent and failed
\* results.
C1_Witness ==
    /\ pc = "returned"
    /\ N = 3
    /\ request.recipients[1] # request.recipients[2]
    /\ CountStatus(report[1].delivery_results, "sent") > 0
    /\ CountStatus(report[1].delivery_results, "failed") > 0

\* C2: a failed generation or send never aborts the other recipients: the
\* generator is called for the recipients in order, one call each, and no
\* run that entered the loop leaves it before the generator was called for
\* every recipient.
C2_NoRecipientSkipped ==
    /\ \A i \in 1..Len(genLog) : genLog[i].index = i
    /\ (pc = "generate") => (Len(genLog) = idx - 1)
    /\ (pc = "send") => (Len(genLog) = idx)
    /\ (pc \in {"release", "returned", "raised"} /\ genLog # <<>>) => (Len(genLog) = N)

\* Scenario B: three recipients, the generator fails for the second only.
C2_Witness ==
    /\ pc = "returned"
    /\ N = 3
    /\ genLog[1].outcome.kind = "text"
    /\ genLog[2].outcome.kind = "raise"
    /\ genLog[3].outcome.kind = "text"
    /\ report[1].delivery_results[1].status = "sent"
    /\ report[1].delivery_results[2].status = "failed"
    /\ report[1].delivery_results[2].email_content = None
    /\ report[1].delivery_results[3].status = "sent"
    /\ report[1].execution_status = "partial_success"
    /\ report[1].campaign_summary.success_rate = 6667

\* C3: an invocation with an empty recipient list returns at once a report
\* with status "failed", no delivery results, all counts and the success
\* rate 0, having called neither the generator nor the transport.
C3_EmptyCampaign ==
    (pc # "idle" /\ N = 0) =>
        /\ pc = "returned"
        /\ error = None
        /\ report[1].execution_status = "failed"
        /\ report[1].delivery_results = <<>>
        /\ report[1].campaign_summary.total_recipients = 0
        /\ report[1].campaign_summary.successful_sends = 0
        /\ report[1].campaign_summary.failed_sends = 0
        /\ report[1].campaign_summary.success_rate = 0
        /\ genLog = <<>>
        /\ sendLog = <<>>
        /\ opens = 0
        /\ session = "closed"

\* The empty campaign has returned its report.
C3_Witness ==
    /\ pc = "returned"
    /\ N = 0
    /\ report # None

\* C4: in a returned report the status is "success" iff nothing failed and
\* there was a recipient, "partial_success" iff some but not all sends
\* succeeded, and "failed" otherwise, that is iff no send succeeded.
C4_ExecutionStatus ==
    (pc = "returned") =>
        LET s  == report[1].campaign_summary
            st == report[1].execution_status
        IN  /\ st \in {"success", "partial_success", "failed"}
            /\ (st = "success") <=> (s.failed_sends = 0 /\ s.total_recipients > 0)
            /\ (st = "partial_success") <=>
                   (0 < s.successful_sends /\ s.successful_sends < s.total_recipients)
            /\ (st = "failed") <=> (s.successful_sends = 0)

\* Scenario A: three recipients, everything succeeds.
C4_Witness ==
    /\ pc = "returned"
    /\ N = 3
    /\ \A i \in 1..3 : report[1].delivery_results[i].status = "sent"
    /\ report[1].execution_status = "success"
    /\ report[1].campaign_summary.success_rate = 10000

\* C5 as stated: whenever a required credential is missing the run raises
\* a configuration error, and no report is produced.
C5_MissingConfigAlwaysRaises ==
    (pc # "idle" /\ CredentialMissing) =>
        /\ pc = "raised"
        /\ report = None

\* C5: with a non-empty recipient list and a required credential missing
\* the run raises a configuration error before the generator is called,
\* before a session is opened and before an email is attempted; there is no
\* delivery result and no report.
C5_MissingConfigRaises ==
    (pc # "idle" /\ N > 0 /\ CredentialMissing) =>
        /\ pc = "raised"
        /\ error[1].type = "ValueError"
        /\ error[1].cause = "config"
        /\ report = None
        /\ delivery_results = <<>>
        /\ genLog = <<>>
        /\ sendLog = <<>>
        /\ opens = 0
        /\ session = "closed"

\* Scenario C: recipients given, only the generator's key is missing.
C5_Witness ==
    /\ pc = "raised"
    /\ N > 0
    /\ env.GROQ_API_KEY = None
    /\ env.SENDER_EMAIL # None
    /\ runner = "sendgrid" => env.SENDGRID_API_KEY # None
    /\ runner = "smtp" => env.SENDER_PASSWORD = Some("pw")
    /\ error[1].type = "ValueError"

ResultWellFormed(d) ==
    /\ d.status \in {"sent", "failed"}
    /\ (d.email_content # None) <=> (d.status = "sent")
    /\ (d.error_message # None) <=> (d.status = "failed")

\* C6: every delivery result, in the list being built and in every returned
\* report, is sent or failed, has content iff sent and an error message iff
\* failed; a recipient whose content was generated and whose send failed
\* has no content.
C6_ResultShape ==
    /\ \A i \in 1..Len(delivery_results) : ResultWellFormed(delivery_results[i])
    /\ (pc = "returned") =>
          \A i \in 1..Len(report[1].delivery_results) :
              ResultWellFormed(report[1].delivery_results[i])
    /\ \A j \in 1..Len(sendLog) :
          (/\ sendLog[j].index <= Len(delivery_results)
           /\ delivery_results[sendLog[j].index].status = "failed")
          => delivery_results[sendLog[j].index].email_content = None

\* A report with a recipient whose content was generated and whose send
\* failed, and another whose send succeeded.
C6_Witness ==
    /\ pc = "returned"
    /\ \E j \in 1..Len(sendLog) :
          /\ sendLog[j].body # <<>>
          /\ report[1].delivery_results[sendLog[j].index].status = "failed"
    /\ \E i \in 1..Len(report[1].delivery_results) :
          report[1].delivery_results[i].status = "sent"

\* Recipients the loop is done with.
Processed == IF pc \in {"generate", "send"} THEN idx - 1 ELSE idx

C7_CountersMatch ==
    /\ successful_sends = CountStatus(delivery_results, "sent")
    /\ failed_sends = CountStatus(delivery_results, "failed")
    /\ successful_sends + failed_sends = Processed
    /\ (pc = "returned") =>
          (report[1].campaign_summary.successful_sends
             + report[1].campaign_summary.failed_sends
           = report[1].campaign_summary.total_recipients)

C7_OnlyGrow ==
    (pc' # "idle") =>
        /\ successful_sends' >= successful_sends
        /\ failed_sends' >= failed_sends
        /\ IsPrefix(delivery_results, delivery_results')

\* C7: at every point of the loop successful_sends is the number of sent
\* results, failed_sends the number of failed results, their sum the number
\* of recipients processed; within an invocation the counters never
\* decrease and the list is only appended to; in a returned report
\* successful_sends + failed_sends = total_recipients.
C7_Counters == []C7_CountersMatch /\ [][C7_OnlyGrow]_vars

\* Between the second and the third recipient, one sent and one failed.
C7_Witness ==
    /\ pc = "generate"
    /\ idx = 3
    /\ successful_sends = 1
    /\ failed_sends = 1

\* C8: in the SMTP runner the loop runs only on a session that was
\* connected, secured and logged in, and a run that failed to connect, to
\* start TLS or to log in has raised, without a report, without having
\* called the generator and without having attempted an email.
C8_SessionFailureIsFatal ==
    (runner = "smtp") =>
        /\ (pc \in {"generate", "send"}) => (session = "ready")
        /\ (pc = "raised" /\ error[1].cause \in {"connect", "starttls", "login"}) =>
              /\ report = None
              /\ genLog = <<>>
              /\ sendLog = <<>>
              /\ delivery_results = <<>>

\* The login was refused for a campaign of three recipients.
C8_Witness ==
    /\ runner = "smtp"
    /\ pc = "raised"
    /\ error[1].cause = "login"
    /\ N = 3

\* C9 as stated: a run raises only for an unmet whole-campaign
\* precondition; once a recipient was attempted it does not raise.
C9_RaisesOnlyForPreconditions ==
    (pc = "raised") =>
        /\ genLog = <<>>
        /\ error[1].cause \in {"config", "groq_init", "sendgrid_init",
                               "connect", "starttls", "login"}

\* C10: the SMTP runner opens one session per invocation, before the first
\* recipient, keeps that one session through the loop, and has closed it
\* whenever the invocation is over, however it ended; no session is open
\* when an invocation starts.
C10_SessionScopedToCampaign ==
    /\ opens <= 1
    /\ (pc \in {"idle", "groq_init", "sendgrid_init", "connect"}) =>
          (session = "closed" /\ opens = 0)
    /\ (runner = "smtp" /\ pc \in {"generate", "send", "release"}) =>
          (session = "ready" /\ opens = 1)
    /\ (runner = "smtp" /\ genLog # <<>>) => (opens = 1)
    /\ (runner = "sendgrid") => (session = "closed" /\ opens = 0)
    /\ Terminated => (session = "closed")

\* An SMTP campaign of three recipients, one of them failed in the loop,
\* has returned.
C10_Witness ==
    /\ runner = "smtp"
    /\ pc = "returned"
    /\ N = 3
    /\ opens = 1
    /\ session = "closed"
    /\ report[1].delivery_results[2].status = "failed"

\* Calls of the transport made for recipient i.
SendsFor(i) == Cardinality({ j \in 1..Len(sendLog) : sendLog[j].index = i })

\* C11: within a campaign the transport is called exactly once for each
\* recipient whose content generation succeeded and never for a recipient
\* whose generation failed or has not happened; every message handed to the
\* transport carries content the generator produced for that recipient.
C11_OneSendPerGeneratedContent ==
    /\ \A i \in 1..N :
          IF i <= Len(delivery_results)
          THEN /\ i <= Len(genLog)
               /\ SendsFor(i) = IF genLog[i].outcome.kind = "text" THEN 1 ELSE 0
          ELSE SendsFor(i) = 0
    /\ \A j \in 1..Len(sendLog) :
          /\ sendLog[j].index <= Len(genLog)
          /\ genLog[sendLog[j].index].outcome.kind = "text"
          /\ sendLog[j].to = request.recipients[sendLog[j].index].email

\* Three recipients: generation failed for one, the send failed for
\* another, the third was delivered; two sends were made.
C11_Witness ==
    /\ pc = "returned"
    /\ N = 3
    /\ genLog[1].outcome.kind = "raise"
    /\ Len(sendLog) = 2
    /\ report[1].delivery_results[2].status = "failed"
    /\ report[1].delivery_results[3].status = "sent"

\* C12: for a non-empty campaign the reported success_rate (in hundredths
\* of a percent) is the multiple of 0.01 nearest to successful_sends /
\* total_recipients * 100, the even one on a tie, and lies between 0 and 100.
C12_SuccessRate ==
    (pc = "returned" /\ N > 0) =>
        LET s     == report[1].campaign_summary
            rate  == s.success_rate
            exact == s.successful_sends * 10000
            diff  == IF rate * s.total_recipients >= exact
                     THEN rate * s.total_recipients - exact
                     ELSE exact - rate * s.total_recipients
        IN  /\ s.total_recipients = N
            /\ 0 <= rate /\ rate <= 10000
            /\ 2 * diff <= s.total_recipients
            /\ (2 * diff = s.total_recipients) => (rate % 2 = 0)
            /\ (s.successful_sends = s.total_recipients) => (rate = 10000)

\* Two of three delivered: 66.67.
C12_Witness ==
    /\ pc = "returned"
    /\ report[1].campaign_summary.total_recipients = 3
    /\ report[1].campaign_summary.successful_sends = 2
    /\ report[1].campaign_summary.success_rate = 6667

\* The subject and the sender name used on every message so far, and the
\* sender name of the summary if a report was returned, are these.
SubjectAndSenderAre(subject, name) ==
    /\ \A j \in 1..Len(sendLog) :
          /\ sendLog[j].subject = subject
          /\ sendLog[j].from_name = name
    /\ (pc = "returned") => (report[1].campaign_summary.sender_name = name)

C14_SenderNameResolution ==
    (pc # "idle") =>
        LET expected == IF request.sender_name # None /\ request.sender_name # Some("")
                        THEN request.sender_name[1]
                        ELSE IF env.SENDER_NAME # None THEN env.SENDER_NAME[1]
                        ELSE request.company_name
        IN  /\ \A j \in 1..Len(sendLog) : sendLog[j].from_name = expected
            /\ (pc = "returned") =>
                  (report[1].campaign_summary.sender_name = expected)

\* C15 as stated: in the SendGrid runner a send that returned a status code
\* is recorded as failed exactly when the code is not in 200..299.
C15_FailedIffNot2xx ==
    (runner = "sendgrid") =>
        \A j \in 1..Len(sendLog) :
            (/\ sendLog[j].outcome.kind = "status"
             /\ sendLog[j].index <= Len(delivery_results)) =>
                ((delivery_results[sendLog[j].index].status = "failed")
                   <=> ~(200 <= sendLog[j].outcome.code /\ sendLog[j].outcome.code <= 299))

\* The generator returned a text for recipient i.
GenerationSucceeded(i) == i <= Len(genLog) /\ genLog[i].outcome.kind = "text"

\* A send for recipient i went through: send_message returned, or SendGrid
\* answered with a status the runner takes as delivered.
SendSucceeded(i) ==
    \E j \in 1..Len(sendLog) :
        /\ sendLog[j].index = i
        /\ \/ sendLog[j].outcome.kind = "ok"
           \/ /\ sendLog[j].outcome.kind = "status"
              /\ sendLog[j].outcome.code \in {200, 201, 202}

\* The error text of a failed result names the first step that failed.
ErrorNamesFirstFailure(i, d) ==
    /\ d.error_message # None
    /\ d.error_message[1][1] =
          IF ~GenerationSucceeded(i) THEN "Groq API error: "
          ELSE IF runner = "smtp" THEN "Failed to send via SMTP: "
          ELSE "Failed to send via SendGrid: "

\* c is raw without the white space at its two ends.
IsStripOf(c, raw) ==
    /\ c = <<>> \/ (c[1] # " " /\ c[Len(c)] # " ")
    /\ \E a \in 0..Len(raw) :
          /\ a + Len(c) <= Len(raw)
          /\ SubSeq(raw, a + 1, a + Len(c)) = c
          /\ \A k \in 1..Len(raw) : (k <= a \/ k > a + Len(c)) => raw[k] = " "

C17_InOrder ==
    /\ \A i \in 1..Len(genLog) : genLog[i].index = i
    /\ \A j \in 1..Len(sendLog) : \A k \in 1..Len(sendLog) :
          (j < k) => (sendLog[j].index < sendLog[k].index)
    /\ (pc = "generate") =>
          /\ Len(delivery_results) = idx - 1
          /\ Len(genLog) = idx - 1
          /\ \A j \in 1..Len(sendLog) : sendLog[j].index < idx
    /\ (pc = "send") =>
          /\ Len(delivery_results) = idx - 1
          /\ Len(genLog) = idx
          /\ genLog[idx].outcome.kind = "text"
          /\ \A j \in 1..Len(sendLog) : sendLog[j].index < idx

C17_OneCallAtATime ==
    (pc' # "idle") =>
        /\ ~(genLog' # genLog /\ sendLog' # sendLog)
        /\ (genLog' # genLog) =>
              /\ Len(genLog') = Len(genLog) + 1
              /\ IsPrefix(genLog, genLog')
              /\ genLog'[Len(genLog')].index = Len(delivery_results) + 1
              /\ \A j \in 1..Len(sendLog) : sendLog[j].index <= Len(delivery_results)
        /\ (sendLog' # sendLog) =>
              /\ Len(sendLog') = Len(sendLog) + 1
              /\ IsPrefix(sendLog, sendLog')
              /\ sendLog'[Len(sendLog')].index = Len(genLog)
              /\ sendLog'[Len(sendLog')].index = Len(delivery_results) + 1

\* C17: recipients are processed one at a time in input order: the
\* generator is called for recipient i+1 only when the results of recipients
\* 1..i are recorded, the send for recipient i comes after its own
\* generation and before any call for a later recipient, and a step makes at
\* most one external call.
C17_Sequential == []C17_InOrder /\ [][C17_OneCallAtATime]_vars

\* The send for the second recipient is about to be made: its content was
\* generated, the first recipient was sent to and is recorded.
C17_Witness ==
    /\ pc = "send"
    /\ idx = 2
    /\ Len(delivery_results) = 1
    /\ Len(sendLog) = 1
    /\ Len(genLog) = 2

\* C18 as stated, with the report of either runner compared to one
\* function of the request and of the per-recipient outcomes: a campaign
\* with all credentials present and the session established, once every
\* recipient was processed, returns a report whose statuses, counters, rate
\* and execution status are that function's, whichever runner ran.
C18_RunnersAgree ==
    (Terminated /\ N > 0 /\ Len(delivery_results) = N) =>
        LET ok(i) == GenerationSucceeded(i) /\ SendSucceeded(i)
            succ  == Cardinality({ i \in 1..N : ok(i) })
        IN  /\ pc = "returned"
            /\ \A i \in 1..N :
                  report[1].delivery_results[i].status = IF ok(i) THEN "sent" ELSE "failed"
            /\ report[1].campaign_summary.successful_sends = succ
            /\ report[1].campaign_summary.failed_sends = N - succ
            /\ report[1].campaign_summary.success_rate = RoundHalfEven(succ * 10000, N)
            /\ report[1].execution_status =
                  IF succ = N THEN "success"
                  ELSE IF succ > 0 THEN "partial_success"
                  ELSE "failed"

====
